---- MODULE Spec2Model ----
(***************************************************************************)
(* Model of the warehouse-floor visualizer (App.jsx): the App component's  *)
(* state, its click handlers, the per-frame animator updateTransform and   *)
(* the colour resolution of Shape.                                         *)
(*                                                                         *)
(* Quantities are fixed-point integers.  Lengths are counted in units of   *)
(* 1/LenScale scene units, frame times in units of 1/TimeScale seconds,    *)
(* and angles in units of Math.PI / MathPI radians, so that the angle      *)
(* Math.PI is the integer MathPI.                                          *)
(*                                                                         *)
(* React state set from a click handler is committed before the next event *)
(* (discrete events are flushed synchronously).  State set from the frame  *)
(* callback (the resolve() closures) is queued and committed by a later    *)
(* render: queuedMoving / queuedRotating hold those queued updates and     *)
(* Render commits them.                                                    *)
(***************************************************************************)
EXTENDS Integers, Sequences, FiniteSets, TLC

VARIABLES
    selectedBoxId,   \* useState(null)
    axis,            \* useState('x')
    distance,        \* useState(0): the text of the distance field
    moving,          \* useState({}): box id -> moveObj
    rotating,        \* useState({}): box id -> rotateObj
    carsOnBoxes,     \* useState({}): box id -> boolean
    errorBoxes,      \* useState({}): box id -> boolean
    blink,           \* Shape's useState(false), one per box
    meshPos,         \* meshRef.current.position, one per box
    meshRotY,        \* meshRef.current.rotation.y, one per box
    queuedMoving,    \* box ids whose setMoving(delete) update awaits a render
    queuedRotating,  \* box ids whose setRotating(delete) update awaits a render
    alerts,          \* number of alert('No pallet selected!') calls so far
    admits,          \* number of animation entries created so far
    turns,           \* history: per box, the number of rotate entries created
    hist,            \* history: per box, the live entry's start data
    labelBoxId,      \* useState(null): the box whose floating label is shown
    cameraPosition,  \* controlsRef.current.object.position
    floor,           \* the grid item handed to expandGrid
    boxes            \* the boxes expandGrid returned for it

appVars   == <<selectedBoxId, axis, distance>>
animVars  == <<moving, rotating, queuedMoving, queuedRotating>>
meshVars  == <<meshPos, meshRotY>>
flagVars  == <<carsOnBoxes, errorBoxes>>
viewVars  == <<labelBoxId, cameraPosition>>
gridVars  == <<floor, boxes>>
vars == <<selectedBoxId, axis, distance, moving, rotating, carsOnBoxes,
          errorBoxes, blink, meshPos, meshRotY, queuedMoving, queuedRotating,
          alerts, admits, turns, hist, labelBoxId, cameraPosition, floor,
          boxes>>

----------------------------------------------------------------------------
(* Bounds of the model *)

MaxAdmit == 2
MaxAlerts == 1
MaxCalls == 2
MaxStarted == 1
MaxTouched == 1

(* Scales of the fixed-point representation *)

LenScale == 10000
TimeScale == 10000
MathPI == 10000

\* A rational approximation of pi, used only to compare an angle (in units
\* of Math.PI / MathPI radians) against the 0.001 rad threshold.
PiNum == 355
PiDen == 113

----------------------------------------------------------------------------
(* The scene: two boxes, one without a colour of its own *)

Null == "null"
None == ""
BoxIds == {"A1", "B2"}
Axes == {"x", "y", "z"}

BoxColor(id) == IF id = "A1" THEN "" ELSE "steelblue"
BoxPosition(id) ==
    IF id = "A1" THEN [x |-> 5 * LenScale, y |-> 0, z |-> 5 * LenScale]
    ELSE [x |-> 15 * LenScale, y |-> 0, z |-> 15 * LenScale]

\* Frame times (the delta argument of useFrame), in units of 1/TimeScale s.
Deltas == {0, 4999, 5000}

\* Texts of the distance field, as tuples of characters: a number, and the
\* empty text of a cleared field.
NumberTexts == { <<"-", "0", ".", "5">> }
DistanceTexts == NumberTexts \cup { <<>> }

----------------------------------------------------------------------------
(* Arithmetic helpers: Math.sign, Math.abs, Math.min *)

Sign(v) == IF v > 0 THEN 1 ELSE IF v < 0 THEN -1 ELSE 0
Abs(v) == IF v < 0 THEN -v ELSE v
Min(a, b) == IF a < b THEN a ELSE b

(* JavaScript object maps as functions on the set of keys present *)

EmptyMap == [i \in {} |-> FALSE]

Put(m, k, v) == [i \in DOMAIN m \cup {k} |-> IF i = k THEN v ELSE m[i]]
Delete(m, ks) == [i \in DOMAIN m \ ks |-> m[i]]
Has(m, k) == k \in DOMAIN m
Flag(m, k) == k \in DOMAIN m /\ m[k]

FalsyIfNull(id) == id = Null

\* !selectedBoxId: null and the empty string are falsy
Falsy(id) == id = Null \/ id = None

----------------------------------------------------------------------------
(* parseFloat on the text of the distance field.  The result is a record:  *)
(* isNaN, and the value in units of 1/LenScale (texts carry at most four   *)
(* decimals).                                                              *)

NaN == [isNaN |-> TRUE, value |-> 0]
Number(v) == [isNaN |-> FALSE, value |-> v]
Digits == {"0", "1", "2", "3", "4", "5", "6", "7", "8", "9"}
DigitValue(c) ==
    CASE c = "0" -> 0 [] c = "1" -> 1 [] c = "2" -> 2 [] c = "3" -> 3
      [] c = "4" -> 4 [] c = "5" -> 5 [] c = "6" -> 6 [] c = "7" -> 7
      [] c = "8" -> 8 [] c = "9" -> 9

\* Length of the longest prefix of s made of digits.
RECURSIVE DigitRun(_)
DigitRun(s) ==
    IF s = <<>> \/ Head(s) \notin Digits THEN 0 ELSE 1 + DigitRun(Tail(s))

\* Value of a digit string as an integer.
RECURSIVE IntOf(_)
IntOf(s) ==
    IF s = <<>> THEN 0 ELSE IntOf(SubSeq(s, 1, Len(s) - 1)) * 10 + DigitValue(s[Len(s)])

\* Value of a digit string read as decimals, in units of 1/LenScale.
RECURSIVE FracOf(_, _)
FracOf(s, weight) ==
    IF s = <<>> THEN 0
    ELSE DigitValue(Head(s)) * (weight \div 10) + FracOf(Tail(s), weight \div 10)

ParseUnsigned(s) ==
    LET n == DigitRun(s)
        rest == SubSeq(s, n + 1, Len(s))
        m == IF rest # <<>> /\ Head(rest) = "." THEN DigitRun(Tail(rest)) ELSE 0
    IN  IF n = 0 /\ m = 0 THEN NaN
        ELSE Number(IntOf(SubSeq(s, 1, n)) * LenScale
                    + (IF m = 0 THEN 0
                       ELSE FracOf(SubSeq(Tail(rest), 1, m), LenScale)))

ParseFloat(s) ==
    IF s # <<>> /\ Head(s) \in {"-", "+"}
    THEN LET v == ParseUnsigned(Tail(s))
         IN  IF v.isNaN THEN NaN
             ELSE IF Head(s) = "-" THEN Number(-v.value) ELSE v
    ELSE ParseUnsigned(s)

----------------------------------------------------------------------------
(* expandGrid.  A floor is the record of a grid item: rows, cols, grid (a   *)
(* sequence of rows of cell values), rowLabels (a sequence of texts, empty  *)
(* when the item has none), cellWidth, cellDepth, y and the box template.   *)
(* Texts are tuples of characters; row r and column c count from 0.         *)

DigitChar(d) == CHOOSE ch \in Digits : DigitValue(ch) = d

\* String(n) for a natural number n
RECURSIVE DecimalText(_)
DecimalText(n) ==
    IF n < 10 THEN <<DigitChar(n)>>
    ELSE DecimalText(n \div 10) \o <<DigitChar(n % 10)>>

\* floor.rowLabels?.[r] || r : a missing label and the empty label are falsy
RowLabel(f, r) ==
    IF r + 1 <= Len(f.rowLabels) /\ f.rowLabels[r + 1] # <<>>
    THEN f.rowLabels[r + 1]
    ELSE DecimalText(r)

ColLabelZeroBased(c) == DecimalText(c)

\* String(c + 1)
ColLabel(c) == DecimalText(c + 1)

\* `${rowLabel}${colLabel}`
GridId(f, r, c) == RowLabel(f, r) \o ColLabel(c)

\* The object pushed for cell (r, c)
GridBox(f, r, c) ==
    [id |-> GridId(f, r, c),
     type |-> "box",
     x |-> c * f.cellWidth + f.cellWidth \div 2,
     y |-> f.y,
     z |-> r * f.cellDepth + f.cellDepth \div 2,
     width |-> f.box.width,
     height |-> f.box.height,
     depth |-> f.box.depth,
     color |-> f.box.color]

\* The two nested loops, from cell number i = r * cols + c on
RECURSIVE ExpandFrom(_, _)
ExpandFrom(f, i) ==
    IF i >= f.rows * f.cols THEN <<>>
    ELSE LET r == i \div f.cols
             c == i % f.cols
         IN  (IF f.grid[r + 1][c + 1] = 1 THEN <<GridBox(f, r, c)>> ELSE <<>>)
                \o ExpandFrom(f, i + 1)

ExpandGrid(f) == ExpandFrom(f, 0)

(* The floors expandGrid is applied to *)

\* Every 2 by 2 grid of free (0) and occupied (1) cells, and one grid with
\* a cell value that is neither
CellValues == {0, 1}
SmallGrids == [{1, 2} -> [{1, 2} -> CellValues]]
OddGrid == << <<1, 2>>, <<0, 1>> >>
\* Two rows of eleven columns, occupied in the last cell of the first row
\* and in the first cell of the second
WideGrid ==
    [r \in 1..2 |-> [c \in 1..11 |->
        IF <<r, c>> \in {<<1, 11>>, <<2, 1>>} THEN 1 ELSE 0]]
Grids == SmallGrids \cup {OddGrid, WideGrid}

RowLabelLists ==
    { <<>>,
      << <<"A">>, <<"B">> >>,
      << <<"A">> >>,
      << <<"A">>, <<"A">> >>,
      << <<"1">>, <<"1", "1">> >>,
      << <<"1">>, <<>> >> }

CellSizes == {10 * LenScale, 3 * LenScale}
Templates ==
    { [width |-> 2 * LenScale, height |-> 1 * LenScale, depth |-> 2 * LenScale,
       color |-> "steelblue"],
      [width |-> 1 * LenScale, height |-> 1 * LenScale, depth |-> 3 * LenScale,
       color |-> ""] }

MakeFloor(g, labels, w, d, y, template) ==
    [rows |-> Len(g), cols |-> Len(g[1]), grid |-> g, rowLabels |-> labels,
     cellWidth |-> w, cellDepth |-> d, y |-> y, box |-> template]

Floors ==
    { MakeFloor(g, labels, w, w, y, template) :
        g \in Grids, labels \in RowLabelLists, w \in CellSizes,
        y \in {0, 5 * LenScale}, template \in Templates }

\* The grid [[1,0],[0,1]] with 10 by 10 cells and no row labels
ExampleFloor ==
    MakeFloor(<< <<1, 0>>, <<0, 1>> >>, <<>>, 10 * LenScale, 10 * LenScale, 0,
              CHOOSE t \in Templates : t.color = "steelblue")

----------------------------------------------------------------------------
(* updateTransform *)

\* speed = type === 'move' ? 1 : Math.PI, in model units per unit of time
Speed(type) ==
    IF type = "move" THEN (1 * LenScale) \div TimeScale ELSE MathPI \div TimeScale

StepUnclamped(remaining, speed, delta) == Sign(remaining) * speed * delta

\* step = Math.sign(obj.remaining) * Math.min(Math.abs(obj.remaining), speed * delta)
Step(remaining, speed, delta) ==
    Sign(remaining) * Min(Abs(remaining), speed * delta)

ExhaustedNever(type, remaining) == FALSE

\* Math.abs(obj.remaining) < 0.001
Exhausted(type, remaining) ==
    IF type = "move" THEN Abs(remaining) < LenScale \div 1000
    ELSE Abs(remaining) * PiNum < (MathPI \div 1000) * PiDen

----------------------------------------------------------------------------
(* Admission checks of handleMove and handleRotate *)

MoveBlockedIfMoving(id) == Has(moving, id)
MoveBlockedNever(id) == FALSE
RotateBlockedIfRotating(id) == Has(rotating, id)

\* if (moving[selectedBoxId] || rotating[selectedBoxId]) return
MoveBlocked(id) == Has(moving, id) \/ Has(rotating, id)

\* if (rotating[selectedBoxId] || moving[selectedBoxId]) return
RotateBlocked(id) == Has(rotating, id) \/ Has(moving, id)

----------------------------------------------------------------------------
(* Colour resolution of Shape *)

BaseColorOwn(id) == BoxColor(id)

\* let color = box.color || 'limegreen'
BaseColor(id) == IF BoxColor(id) = "" THEN "limegreen" ELSE BoxColor(id)

ShapeColorBlinkOnly(id, isSelected, cars, errors, blinkOn) ==
    LET c1 == IF Flag(cars, id) THEN "lightgray" ELSE BaseColor(id)
        c2 == IF isSelected THEN "yellow" ELSE c1
    IN  IF blinkOn THEN "firebrick" ELSE c2

ShapeColor(id, isSelected, cars, errors, blinkOn) ==
    LET c1 == IF Flag(cars, id) THEN "lightgray" ELSE BaseColor(id)
        c2 == IF isSelected THEN "yellow" ELSE c1
    IN  IF Flag(errors, id) THEN (IF blinkOn THEN "firebrick" ELSE c2) ELSE c2

\* The colour box id is displayed in, in the current state.
Color(id) == ShapeColor(id, id = selectedBoxId, carsOnBoxes, errorBoxes, blink[id])

----------------------------------------------------------------------------
(* The camera and the floating label *)

\* <Canvas camera={{ position: [45, 20, 40] }}>
HomeCamera == [x |-> 45 * LenScale, y |-> 20 * LenScale, z |-> 40 * LenScale]

\* Camera positions a pan, zoom or orbit gesture of the user leads to
UserCameras == {HomeCamera,
                [x |-> 45 * LenScale, y |-> 30 * LenScale, z |-> 20 * LenScale]}

\* const offset = 2
offset == 2 * LenScale

\* cameraPos = (boxPos.x, boxPos.y + offset, boxPos.z + offset * 2)
ZoomCamera(boxPos) ==
    [x |-> boxPos.x, y |-> boxPos.y + offset, z |-> boxPos.z + offset * 2]

\* Whether the orbit control finds the camera moved and dispatches its
\* 'change' event: the square of the distance exceeds 0.000001
CameraMoved(from, to) ==
    LET tol == LenScale \div 1000
        d(a) == Abs(to[a] - from[a])
    IN  IF \E a \in Axes : d(a) > tol THEN TRUE
        ELSE d("x") * d("x") + d("y") * d("y") + d("z") * d("z") > tol * tol

ClearLabelKeep(prev) == prev

\* clearLabel = () => setLabelBoxId(null)
ClearLabel(prev) == Null

\* setLabelBoxId((prev) => (prev === boxId ? null : boxId))
ToggleLabel(prev, boxId) == IF prev = boxId THEN Null ELSE boxId

----------------------------------------------------------------------------
(* History records *)

NoHist == [kind |-> "none", delta0 |-> 0, axis |-> "x",
           pos0 |-> [x |-> 0, y |-> 0, z |-> 0], rot0 |-> 0,
           calls |-> 0]

Init ==
    /\ selectedBoxId = Null
    /\ axis = "x"
    /\ distance = <<"0">>
    /\ moving = EmptyMap
    /\ rotating = EmptyMap
    /\ carsOnBoxes = EmptyMap
    /\ errorBoxes = EmptyMap
    /\ blink = [b \in BoxIds |-> FALSE]
    /\ meshPos = [b \in BoxIds |-> BoxPosition(b)]
    /\ meshRotY = [b \in BoxIds |-> 0]
    /\ queuedMoving = {}
    /\ queuedRotating = {}
    /\ alerts = 0
    /\ admits = 0
    /\ turns = [b \in BoxIds |-> 0]
    /\ hist = [b \in BoxIds |-> NoHist]
    /\ labelBoxId = Null
    /\ cameraPosition = HomeCamera
    /\ floor = ExampleFloor
    /\ boxes = <<>>

----------------------------------------------------------------------------
(* Selection and the form controls *)

\* onSelect(box.id) from a click on a mesh, or the pallet selector, whose
\* first option has the empty value
SelectBox(id) ==
    /\ selectedBoxId' = id
    /\ UNCHANGED <<viewVars, gridVars, axis, distance, animVars, meshVars, flagVars, blink,
                   alerts, admits, turns, hist>>

SetAxis(a) ==
    /\ axis' = a
    /\ UNCHANGED <<viewVars, gridVars, selectedBoxId, distance, animVars, meshVars, flagVars,
                   blink, alerts, admits, turns, hist>>

SetDistance(text) ==
    /\ distance' = text
    /\ UNCHANGED <<viewVars, gridVars, selectedBoxId, axis, animVars, meshVars, flagVars, blink,
                   alerts, admits, turns, hist>>

\* alert('No pallet selected!'); return
Warn ==
    /\ alerts < MaxAlerts
    /\ alerts' = alerts + 1
    /\ UNCHANGED <<viewVars, gridVars, appVars, animVars, meshVars, flagVars, blink, admits,
                   turns, hist>>

----------------------------------------------------------------------------
(* handleMove *)

MoveObjOfFirstBox(id, moveAxis, dist) ==
    [axis |-> moveAxis, remaining |-> dist, boxId |-> "A1"]

\* moveObj = { axis, remaining: dist, resolve: () => setMoving(delete
\* next[selectedBoxId]) }; boxId is the id the resolve closure captured
MoveObj(id, moveAxis, dist) == [axis |-> moveAxis, remaining |-> dist, boxId |-> id]

NoDistanceIfNaN(dist) == dist.isNaN

\* isNaN(dist) || dist === 0
NoDistance(dist) == dist.isNaN \/ dist.value = 0

HandleMove ==
    LET dist == ParseFloat(distance)
        id == selectedBoxId
        moveObj == MoveObj(id, axis, dist.value)
    IN  \/ /\ Falsy(id)
           /\ Warn
        \/ /\ ~Falsy(id)
           /\ NoDistance(dist)
           /\ UNCHANGED vars
        \/ /\ ~Falsy(id)
           /\ ~NoDistance(dist)
           /\ MoveBlocked(id)
           /\ UNCHANGED vars
        \/ /\ ~Falsy(id)
           /\ ~NoDistance(dist)
           /\ ~MoveBlocked(id)
           /\ admits < MaxAdmit
           /\ moving' = Put(moving, id, moveObj)
           /\ admits' = admits + 1
           /\ hist' = [hist EXCEPT ![id] =
                        [kind |-> "move", delta0 |-> dist.value, axis |-> axis,
                         pos0 |-> meshPos[id], rot0 |-> meshRotY[id],
                         calls |-> 0]]
           /\ UNCHANGED <<viewVars, gridVars, appVars, rotating, queuedMoving, queuedRotating,
                          meshVars, flagVars, blink, alerts, turns>>

(* handleRotate *)

RotateObjToHalfTurn(id) == [remaining |-> MathPI - meshRotY[id], boxId |-> id]

\* rotateObj = { remaining: Math.PI, resolve: () => setRotating(delete
\* next[selectedBoxId]) }
RotateObj(id) == [remaining |-> MathPI, boxId |-> id]

HandleRotate ==
    LET id == selectedBoxId
        rotateObj == RotateObj(id)
    IN  \/ /\ Falsy(id)
           /\ Warn
        \/ /\ ~Falsy(id)
           /\ RotateBlocked(id)
           /\ UNCHANGED vars
        \/ /\ ~Falsy(id)
           /\ ~RotateBlocked(id)
           /\ admits < MaxAdmit
           /\ rotating' = Put(rotating, id, rotateObj)
           /\ admits' = admits + 1
           /\ hist' = [hist EXCEPT ![id] =
                        [kind |-> "rotate", delta0 |-> MathPI, axis |-> "y",
                         pos0 |-> meshPos[id], rot0 |-> meshRotY[id],
                         calls |-> 0]]
           /\ turns' = [turns EXCEPT ![id] = @ + 1]
           /\ UNCHANGED <<viewVars, gridVars, appVars, moving, queuedMoving, queuedRotating,
                          meshVars, flagVars, blink, alerts>>

----------------------------------------------------------------------------
(* The Toggle Car and Toggle Error buttons, toggleCar and toggleError *)

ToggledOn(m, id) == Put(m, id, TRUE)

\* { ...prev, [boxId]: !prev[boxId] }
Toggled(m, id) == Put(m, id, ~Flag(m, id))

ToggleCarButton ==
    \/ /\ Falsy(selectedBoxId)
       /\ Warn
    \/ /\ ~Falsy(selectedBoxId)
       /\ carsOnBoxes' = Toggled(carsOnBoxes, selectedBoxId)
       /\ UNCHANGED <<viewVars, gridVars, appVars, animVars, meshVars, errorBoxes, blink, alerts,
                      admits, turns, hist>>

ToggleErrorButton ==
    \/ /\ Falsy(selectedBoxId)
       /\ Warn
    \/ /\ ~Falsy(selectedBoxId)
       /\ errorBoxes' = Toggled(errorBoxes, selectedBoxId)
       /\ UNCHANGED <<viewVars, gridVars, appVars, animVars, meshVars, carsOnBoxes, blink, alerts,
                      admits, turns, hist>>

\* setInterval(() => setBlink(prev => !prev), 666), alive while the box's
\* error flag is set
BlinkInterval(id) ==
    /\ Flag(errorBoxes, id)
    /\ blink' = [blink EXCEPT ![id] = ~@]
    /\ UNCHANGED <<viewVars, gridVars, appVars, animVars, meshVars, flagVars, alerts, admits,
                   turns, hist>>

----------------------------------------------------------------------------
(* The floating label: handleZoomToBox and the 'change' listener *)

\* A double-click on the mesh of box boxId.  controls.update() dispatches
\* 'change' when it finds the camera moved, so the listener's
\* setLabelBoxId(null) is queued ahead of the toggle.
DoubleClick(boxId) ==
    LET cameraPos == ZoomCamera(meshPos[boxId])
        listened == IF CameraMoved(cameraPosition, cameraPos)
                    THEN ClearLabel(labelBoxId) ELSE labelBoxId
    IN  /\ cameraPosition' = cameraPos
        /\ labelBoxId' = ToggleLabel(listened, boxId)
        /\ UNCHANGED <<appVars, animVars, meshVars, flagVars, blink, alerts,
                       admits, turns, hist, gridVars>>

\* The user pans, zooms or orbits the camera to position p
CameraChange(p) ==
    /\ CameraMoved(cameraPosition, p)
    /\ cameraPosition' = p
    /\ labelBoxId' = ClearLabel(labelBoxId)
    /\ UNCHANGED <<appVars, animVars, meshVars, flagVars, blink, alerts,
                   admits, turns, hist, gridVars>>

(* The call of expandGrid on a grid item *)

ExpandFloor ==
    /\ boxes' = ExpandGrid(floor)
    /\ UNCHANGED <<appVars, animVars, meshVars, flagVars, blink, alerts,
                   admits, turns, hist, viewVars, floor>>

----------------------------------------------------------------------------
(* One rendered frame: every Shape's useFrame callback runs updateTransform *)
(* for its move entry and for its rotate entry, with the same delta.        *)

MoveStep(id, delta) == Step(moving[id].remaining, Speed("move"), delta)
RotateStep(id, delta) == Step(rotating[id].remaining, Speed("rotate"), delta)

MovedPositionAlongX(pos, moveAxis, step) == [pos EXCEPT !["x"] = @ + step]

\* meshRef.current.position[obj.axis] += step
MovedPosition(pos, moveAxis, step) == [pos EXCEPT ![moveAxis] = @ + step]

FrameTick(delta) ==
    LET movedRemaining(id) == moving[id].remaining - MoveStep(id, delta)
        rotatedRemaining(id) == rotating[id].remaining - RotateStep(id, delta)
        movesDone == {id \in DOMAIN moving : Exhausted("move", movedRemaining(id))}
        rotatesDone ==
            {id \in DOMAIN rotating : Exhausted("rotate", rotatedRemaining(id))}
        resolved(id) ==
            (IF id \in movesDone THEN 1 ELSE 0) + (IF id \in rotatesDone THEN 1 ELSE 0)
    IN  /\ moving' = [id \in DOMAIN moving |->
                        [moving[id] EXCEPT !.remaining = movedRemaining(id)]]
        /\ rotating' = [id \in DOMAIN rotating |->
                          [rotating[id] EXCEPT !.remaining = rotatedRemaining(id)]]
        /\ meshPos' = [id \in BoxIds |->
                         IF Has(moving, id)
                         THEN MovedPosition(meshPos[id], moving[id].axis,
                                            MoveStep(id, delta))
                         ELSE meshPos[id]]
        /\ meshRotY' = [id \in BoxIds |->
                          IF Has(rotating, id)
                          THEN meshRotY[id] + RotateStep(id, delta)
                          ELSE meshRotY[id]]
        \* obj.resolve(): setMoving / setRotating with a delete of the box id
        \* the closure captured
        /\ queuedMoving' = queuedMoving \cup {moving[id].boxId : id \in movesDone}
        /\ queuedRotating' =
               queuedRotating \cup {rotating[id].boxId : id \in rotatesDone}
        /\ hist' = [id \in BoxIds |->
                      [hist[id] EXCEPT !.calls = Min(@ + resolved(id), MaxCalls)]]
        /\ UNCHANGED <<viewVars, gridVars, appVars, flagVars, blink, alerts, admits, turns>>

\* The render that commits the queued setMoving / setRotating updates
Render ==
    /\ queuedMoving \cup queuedRotating # {}
    /\ moving' = Delete(moving, queuedMoving)
    /\ rotating' = Delete(rotating, queuedRotating)
    /\ queuedMoving' = {}
    /\ queuedRotating' = {}
    /\ hist' = [id \in BoxIds |->
                  IF id \in queuedMoving \cup queuedRotating THEN NoHist
                  ELSE hist[id]]
    /\ UNCHANGED <<viewVars, gridVars, appVars, meshVars, flagVars, blink, alerts, admits, turns>>

----------------------------------------------------------------------------

\* Every event of the application
Next ==
    \/ \E id \in BoxIds \cup {None} : SelectBox(id)
    \/ \E a \in Axes : SetAxis(a)
    \/ \E text \in DistanceTexts : SetDistance(text)
    \/ HandleMove
    \/ HandleRotate
    \/ ToggleCarButton
    \/ ToggleErrorButton
    \/ \E id \in BoxIds : BlinkInterval(id)
    \/ \E delta \in Deltas : FrameTick(delta)
    \/ Render
    \/ \E id \in BoxIds : DoubleClick(id)
    \/ \E p \in UserCameras : CameraChange(p)
    \/ ExpandFloor

Spec == Init /\ [][Next]_vars

\* The animation scenario: selection, the move form, Move and Rotate
\* requests, frames and renders.
NextAnim ==
    \/ \E id \in BoxIds : SelectBox(id)
    \/ \E a \in Axes : SetAxis(a)
    \/ \E text \in NumberTexts : SetDistance(text)
    \/ HandleMove
    \/ HandleRotate
    \/ \E delta \in Deltas : FrameTick(delta)
    \/ Render

SpecAnim == Init /\ [][NextAnim]_vars

\* The animation scenario with the axis selector left alone, under the
\* scheduling the animations rely on: frames with nonzero elapsed time keep
\* occurring, and React eventually renders a queued state update.
NextAnimLive ==
    \/ \E id \in BoxIds : SelectBox(id)
    \/ \E text \in NumberTexts : SetDistance(text)
    \/ HandleMove
    \/ HandleRotate
    \/ \E delta \in Deltas : FrameTick(delta)
    \/ Render

SpecAnimLive ==
    /\ Init
    /\ [][NextAnimLive]_vars
    /\ WF_vars(\E delta \in Deltas \ {0} : FrameTick(delta))
    /\ WF_vars(Render)

\* The overlay scenario: selection, the distance field, the four buttons
\* and the blink timers, with no frame rendered.
NextFlags ==
    \/ \E id \in BoxIds \cup {None} : SelectBox(id)
    \/ \E text \in DistanceTexts : SetDistance(text)
    \/ HandleMove
    \/ HandleRotate
    \/ ToggleCarButton
    \/ ToggleErrorButton
    \/ \E id \in BoxIds : BlinkInterval(id)

SpecFlags == Init /\ [][NextFlags]_vars

\* The label scenario: selection, Move requests along the x axis, frames
\* and renders, double-clicks and camera gestures.
NextLabel ==
    \/ \E id \in BoxIds : SelectBox(id)
    \/ \E text \in NumberTexts : SetDistance(text)
    \/ HandleMove
    \/ \E delta \in Deltas : FrameTick(delta)
    \/ Render
    \/ \E id \in BoxIds : DoubleClick(id)
    \/ \E p \in UserCameras : CameraChange(p)

SpecLabel == Init /\ [][NextLabel]_vars

\* The overlay scenario with the label: selection, Move and Rotate
\* requests, the two toggle buttons, double-clicks and camera gestures,
\* with no frame rendered, so that an admitted entry stays live.
NextOverlay ==
    \/ \E id \in BoxIds : SelectBox(id)
    \/ \E text \in NumberTexts : SetDistance(text)
    \/ HandleMove
    \/ HandleRotate
    \/ ToggleCarButton
    \/ ToggleErrorButton
    \/ \E id \in BoxIds : DoubleClick(id)
    \/ \E p \in UserCameras : CameraChange(p)

SpecOverlay == Init /\ [][NextOverlay]_vars

\* Number of overlay flags ever toggled: a toggled flag stays a key of its map
TouchedFlags == Cardinality(DOMAIN carsOnBoxes) + Cardinality(DOMAIN errorBoxes)

\* The user scenario: a session with every control of the panel,
\* double-clicks, frames and renders, in which at most MaxTouched overlay
\* flags are ever toggled and at most MaxStarted Move or Rotate requests are
\* made for an idle box; requests for a box with a live entry are not
\* limited.
NextUser ==
    \/ \E id \in BoxIds : SelectBox(id)
    \/ \E a \in Axes : SetAxis(a)
    \/ \E text \in NumberTexts : SetDistance(text)
    \/ HandleMove /\ (Has(moving, selectedBoxId) \/ Has(rotating, selectedBoxId)
                        \/ admits' <= MaxStarted)
    \/ HandleRotate /\ (Has(moving, selectedBoxId) \/ Has(rotating, selectedBoxId)
                          \/ admits' <= MaxStarted)
    \/ ToggleCarButton /\ TouchedFlags' <= MaxTouched
    \/ ToggleErrorButton /\ TouchedFlags' <= MaxTouched
    \/ \E id \in BoxIds : DoubleClick(id)
    \/ \E delta \in Deltas : FrameTick(delta)
    \/ Render

SpecUser == Init /\ [][NextUser]_vars

\* expandGrid applied to each of the floors
InitGrid ==
    /\ selectedBoxId = Null
    /\ axis = "x"
    /\ distance = <<"0">>
    /\ moving = EmptyMap
    /\ rotating = EmptyMap
    /\ carsOnBoxes = EmptyMap
    /\ errorBoxes = EmptyMap
    /\ blink = [b \in BoxIds |-> FALSE]
    /\ meshPos = [b \in BoxIds |-> BoxPosition(b)]
    /\ meshRotY = [b \in BoxIds |-> 0]
    /\ queuedMoving = {}
    /\ queuedRotating = {}
    /\ alerts = 0
    /\ admits = 0
    /\ turns = [b \in BoxIds |-> 0]
    /\ hist = [b \in BoxIds |-> NoHist]
    /\ labelBoxId = Null
    /\ cameraPosition = HomeCamera
    /\ floor \in Floors
    /\ boxes = <<>>

NextGrid == ExpandFloor

SpecGrid == InitGrid /\ [][NextGrid]_vars

----------------------------------------------------------------------------
(* Properties *)

Busy(id) == Has(moving, id) \/ Has(rotating, id)

\* C1: a Move or Rotate request for a selected box that already has a live
\* entry in the moving map or in the rotating map leaves both maps unchanged.
C1_BusyRequestRejected ==
    [][ ( /\ selectedBoxId \in BoxIds
          /\ Busy(selectedBoxId)
          /\ HandleMove \/ HandleRotate )
        => UNCHANGED <<moving, rotating>> ]_vars

\* A box is selected while it has a live entry, the distance field holds a
\* nonzero number and the budget still allows an entry: a Move click here is
\* refused by the busy check alone, and the refusal leaves this very state.
C1_Witness ==
    /\ selectedBoxId \in BoxIds
    /\ Has(rotating, selectedBoxId)
    /\ ~ParseFloat(distance).isNaN
    /\ ParseFloat(distance).value # 0
    /\ admits < MaxAdmit

\* C2: no box id is a key of both the moving map and the rotating map, and
\* every entry is filed under the one id its own completion removes.
C2_OneEntryPerBox ==
    /\ \A id \in BoxIds : ~(Has(moving, id) /\ Has(rotating, id))
    /\ DOMAIN moving \subseteq BoxIds
    /\ DOMAIN rotating \subseteq BoxIds
    /\ \A id \in DOMAIN moving : moving[id].boxId = id
    /\ \A id \in DOMAIN rotating : rotating[id].boxId = id

\* One box is moving while the other is rotating.
C2_Witness ==
    \E a, b \in BoxIds : a # b /\ Has(moving, a) /\ Has(rotating, b)

\* C3: the completion callback of an entry fires at most once, also on the
\* frames that run before the removal it requested is rendered.
C3_ResolveOnce ==
    \A id \in BoxIds : hist[id].calls <= 1

\* C4: with frames of nonzero elapsed time recurring and queued updates
\* eventually rendered, every entry of the moving map and of the rotating
\* map is eventually removed from its map.
C4_EntryEventuallyRemoved ==
    \A id \in BoxIds :
        /\ Has(moving, id) ~> ~Has(moving, id)
        /\ Has(rotating, id) ~> ~Has(rotating, id)

\* The one entry admitted so far has completed and been removed.
C4_Witness ==
    /\ admits = 1
    /\ DOMAIN moving = {}
    /\ DOMAIN rotating = {}
    /\ queuedMoving = {}
    /\ queuedRotating = {}
    /\ \E id \in BoxIds :
          meshPos[id] # BoxPosition(id) \/ meshRotY[id] # 0

\* What one step of the system did to an entry that is live before and
\* after it: the change of the remaining delta, and the displacement applied.
StepWithinRemaining(before, after, applied, speed) ==
    /\ applied = before - after
    /\ applied = 0 \/ Sign(applied) = Sign(before)
    /\ \E delta \in Deltas : Abs(applied) = Min(Abs(before), speed * delta)
    /\ after = 0 \/ Sign(after) = Sign(before)
    /\ Abs(after) <= Abs(before)

\* C5: on every step the displacement applied to a live entry has the sign of
\* remaining and the magnitude min(|remaining|, speed * delta) for a frame
\* time delta, remaining keeps its sign and never grows in magnitude, and the
\* displacement applied since admission never exceeds |initial delta|.
C5_NoOvershoot ==
    [][ \A id \in BoxIds :
          /\ (Has(moving, id) /\ Has(moving', id)) =>
                LET a == moving[id].axis
                IN  /\ StepWithinRemaining(moving[id].remaining,
                                           moving'[id].remaining,
                                           meshPos'[id][a] - meshPos[id][a],
                                           Speed("move"))
                    /\ Abs(meshPos'[id][a] - hist'[id].pos0[a])
                          <= Abs(hist'[id].delta0)
          /\ (Has(rotating, id) /\ Has(rotating', id)) =>
                /\ StepWithinRemaining(rotating[id].remaining,
                                       rotating'[id].remaining,
                                       meshRotY'[id] - meshRotY[id],
                                       Speed("rotate"))
                /\ Abs(meshRotY'[id] - hist'[id].rot0) <= Abs(hist'[id].delta0)
      ]_vars

\* A move entry has been brought to exactly 0 and its box stands on the
\* target, while a rotate entry of the other box is part of the way.
C5_Witness ==
    \E id, other \in BoxIds :
        /\ Has(rotating, other)
        /\ rotating[other].remaining \notin {0, MathPI}
        /\ Has(moving, id)
        /\ moving[id].remaining = 0
        /\ meshPos[id][moving[id].axis]
              = hist[id].pos0[moving[id].axis] + hist[id].delta0

\* The axes a move along moveAxis must leave alone.
OtherAxesKept(id, moveAxis, pos) ==
    \A a \in Axes \ {moveAxis} : pos[a] = hist[id].pos0[a]

\* C6 as claimed: when the render removes a box's move entry, the box's
\* position along the entry's axis has changed by exactly the requested
\* distance, the other axes and the Y rotation being unchanged.
C6_ExactDisplacement ==
    [][ \A id \in BoxIds :
          (Has(moving, id) /\ ~Has(moving', id)) =>
              LET a == moving[id].axis
              IN  /\ meshPos'[id][a] - hist[id].pos0[a] = hist[id].delta0
                  /\ OtherAxesKept(id, a, meshPos'[id])
                  /\ meshRotY'[id] = hist[id].rot0
      ]_vars

\* C6 as amended: when the render removes a box's move entry, the box's
\* position along the entry's axis has changed by the requested distance to
\* within the 0.001 completion threshold, in the direction of the distance
\* and by no more than it; the other axes and the Y rotation are unchanged.
C6_DisplacementWithinEpsilon ==
    [][ \A id \in BoxIds :
          (Has(moving, id) /\ ~Has(moving', id)) =>
              LET a == moving[id].axis
                  done == meshPos'[id][a] - hist[id].pos0[a]
                  left == hist[id].delta0 - done
              IN  /\ Exhausted("move", left)
                  /\ left = 0 \/ Sign(left) = Sign(hist[id].delta0)
                  /\ left = moving[id].remaining
                  /\ OtherAxesKept(id, a, meshPos'[id])
                  /\ meshRotY'[id] = hist[id].rot0
      ]_vars

\* The only move admitted so far has been removed from the map and left its
\* box one ten-thousandth short of the requested -0.5.
C6_Witness ==
    \E id \in BoxIds : \E a \in Axes :
        /\ admits = 1
        /\ ~Has(moving, id)
        /\ queuedMoving = {}
        /\ meshPos[id][a] - BoxPosition(id)[a] = 1 - (LenScale \div 2)

\* C7: a selected box is displayed in the selection colour, whatever its
\* car-present flag, its error flag and its blink phase.
C7_SelectionColorWins ==
    \A id \in BoxIds : id = selectedBoxId => Color(id) = "yellow"

\* An unselected box without the car-present flag.
Plain(id) == id # selectedBoxId /\ ~Flag(carsOnBoxes, id)

\* C8: an unselected box without the car-present flag is displayed, while
\* its error flag is set, in the alarm colour in one blink phase and in its
\* base colour in the other, so that each flip of the phase changes the
\* colour; with the error flag off it is displayed in its base colour, which
\* is not the alarm colour, in either blink phase.
C8_BlinkOnlyWhileError ==
    [][ \A id \in BoxIds :
          /\ BaseColor(id) # "firebrick"
          /\ (Plain(id)' /\ Flag(errorBoxes', id)) =>
                Color(id)' = IF blink'[id] THEN "firebrick" ELSE BaseColor(id)
          /\ (Plain(id)' /\ ~Flag(errorBoxes', id)) =>
                Color(id)' = BaseColor(id)
          /\ (Plain(id) /\ Plain(id)' /\ Flag(errorBoxes, id)
                /\ errorBoxes' = errorBoxes /\ blink'[id] # blink[id]) =>
                /\ Color(id)' # Color(id)
                /\ {Color(id), Color(id)'} = {"firebrick", BaseColor(id)}
      ]_vars

\* The error flag of an unselected box without a car was toggled off while
\* its blink phase was the alarm phase.
C8_Witness ==
    \E id \in BoxIds :
        /\ Plain(id)
        /\ Has(errorBoxes, id)
        /\ ~errorBoxes[id]
        /\ blink[id]

\* The angle a box has been asked to turn by so far.
Asked(id) == turns[id] * MathPI

\* C9 as claimed: every rotate entry is created with remaining = pi, and a
\* box whose two Rotate requests have both run to completion has its
\* original Y rotation modulo 2 pi.
C9_TwoHalfTurnsExact ==
    \A id \in BoxIds :
        (turns[id] = 2 /\ ~Has(rotating, id)) =>
            meshRotY[id] % (2 * MathPI) = 0

\* C9 as amended: every rotate entry is created with remaining = pi
\* whatever the box's rotation, and a box whose Rotate requests have all run
\* to completion has turned by pi per request less a residue below the
\* 0.001 completion threshold each, so that after two of them its Y
\* rotation is its original value modulo 2 pi to within 0.002.
C9_HalfTurnsWithinEpsilon ==
    [][ \A id \in BoxIds :
          /\ (~Has(rotating, id) /\ Has(rotating', id)) =>
                rotating'[id].remaining = MathPI
          /\ ~Has(rotating', id) =>
                IF turns'[id] = 0 THEN meshRotY'[id] = 0
                ELSE /\ meshRotY'[id] <= Asked(id)'
                     /\ (Asked(id)' - meshRotY'[id]) * PiNum
                           < turns'[id] * (MathPI \div 1000) * PiDen
      ]_vars

\* A box has completed two rotations and is short of a full turn.
C9_Witness ==
    \E id \in BoxIds :
        /\ turns[id] = 2
        /\ ~Has(rotating, id)
        /\ meshRotY[id] # 2 * MathPI

\* C10: with no box selected (null, or the empty value of the selector),
\* Move, Rotate, Toggle Car and Toggle Error each raise the warning and leave
\* the moving, rotating, car-present and error maps unchanged.
C10_NoSelectionWarns ==
    [][ ( /\ selectedBoxId \in {Null, None}
          /\ HandleMove \/ HandleRotate \/ ToggleCarButton \/ ToggleErrorButton )
        => /\ alerts' = alerts + 1
           /\ UNCHANGED <<moving, rotating, carsOnBoxes, errorBoxes>> ]_vars

\* The warning was raised with the selector on its empty value, after flags
\* and an entry had been set.
C10_Witness ==
    /\ selectedBoxId = None
    /\ alerts = 1
    /\ DOMAIN carsOnBoxes # {}
    /\ DOMAIN errorBoxes # {}
    /\ DOMAIN rotating # {}

\* C11: a Move request with a box selected and a distance that is zero or
\* does not parse to a number changes nothing: no warning, no entry in the
\* moving map, every other variable as before.
C11_BadDistanceAborts ==
    [][ ( /\ selectedBoxId \in BoxIds
          /\ ParseFloat(distance).isNaN \/ ParseFloat(distance).value = 0
          /\ HandleMove )
        => UNCHANGED vars ]_vars

\* An idle box is selected with the distance field cleared, after a warning
\* and while an entry could still be admitted: a Move click here is refused
\* by the distance check alone.
C11_Witness ==
    /\ selectedBoxId \in BoxIds
    /\ ~Busy(selectedBoxId)
    /\ distance = <<>>
    /\ ParseFloat(distance).isNaN
    /\ admits < MaxAdmit
    /\ alerts = 1

\* C12: Toggle Car and Toggle Error on a selected box b are never refused,
\* flip b's flag in their own map and leave the flags of every other box,
\* the other map, the selection, the label and both animation maps as they
\* were; a flag changes value on no other step; toggling twice restores it.
C12_ToggleFlipsOneFlag ==
    [][ \A b \in BoxIds :
          /\ selectedBoxId = b => ENABLED ToggleCarButton /\ ENABLED ToggleErrorButton
          /\ (selectedBoxId = b /\ ToggleCarButton) =>
                /\ Flag(carsOnBoxes', b) = ~Flag(carsOnBoxes, b)
                /\ \A o \in BoxIds \ {b} :
                      Flag(carsOnBoxes', o) = Flag(carsOnBoxes, o)
                /\ UNCHANGED <<errorBoxes, selectedBoxId, labelBoxId, moving,
                               rotating>>
          /\ (selectedBoxId = b /\ ToggleErrorButton) =>
                /\ Flag(errorBoxes', b) = ~Flag(errorBoxes, b)
                /\ \A o \in BoxIds \ {b} :
                      Flag(errorBoxes', o) = Flag(errorBoxes, o)
                /\ UNCHANGED <<carsOnBoxes, selectedBoxId, labelBoxId, moving,
                               rotating>>
          /\ Flag(carsOnBoxes', b) # Flag(carsOnBoxes, b) =>
                selectedBoxId = b /\ ToggleCarButton
          /\ Flag(errorBoxes', b) # Flag(errorBoxes, b) =>
                selectedBoxId = b /\ ToggleErrorButton
          /\ Flag(Toggled(Toggled(carsOnBoxes, b), b), b) = Flag(carsOnBoxes, b)
          /\ Flag(Toggled(Toggled(errorBoxes, b), b), b) = Flag(errorBoxes, b)
      ]_vars

\* The selected box has a live entry, its car-present flag has been toggled
\* on and off again, and the label is shown on the other box, whose error
\* flag is on.
C12_Witness ==
    \E b, o \in BoxIds :
        /\ b # o
        /\ selectedBoxId = b
        /\ Has(rotating, b)
        /\ Has(carsOnBoxes, b)
        /\ ~carsOnBoxes[b]
        /\ Flag(errorBoxes, o)
        /\ labelBoxId = o

\* C13: a double-click on box b shows the label on b when it was not on b,
\* and hides it (labelBoxId null) when it was on b, also when the
\* re-framing of the camera dispatches a change event and when b has been
\* moved by an animation since the label was shown.
C13_DoubleClickToggles ==
    [][ \A b \in BoxIds :
          DoubleClick(b) =>
              labelBoxId' = IF labelBoxId = b THEN Null ELSE b
      ]_vars

\* C14: a camera gesture sets labelBoxId to null and leaves the selection,
\* the overlay maps and the animation maps as they were; afterwards the
\* label is shown again only by a double-click.
C14_CameraChangeClearsLabel ==
    [][ /\ (\E p \in UserCameras : CameraChange(p)) =>
              /\ labelBoxId' = Null
              /\ UNCHANGED <<selectedBoxId, carsOnBoxes, errorBoxes, moving,
                             rotating>>
        /\ (labelBoxId' # labelBoxId /\ labelBoxId' # Null) =>
              \E b \in BoxIds : DoubleClick(b)
      ]_vars

\* The camera stands where a gesture of the user left it and no label is
\* shown, while a box is selected, has a live entry and has its car-present
\* flag on.
C14_Witness ==
    /\ cameraPosition \in UserCameras \ {HomeCamera}
    /\ labelBoxId = Null
    /\ selectedBoxId \in BoxIds
    /\ Has(moving, selectedBoxId)
    /\ Flag(carsOnBoxes, selectedBoxId)

\* The cells of floor f holding the value 1, as pairs <<r, c>> counted from 0
OccupiedCells(f) ==
    {cell \in (0..(f.rows - 1)) \X (0..(f.cols - 1)) :
        f.grid[cell[1] + 1][cell[2] + 1] = 1}

\* The place of an occupied cell in row-major order, counted from 1
Rank(f, cell) ==
    1 + Cardinality({o \in OccupiedCells(f) :
                        o[1] * f.cols + o[2] < cell[1] * f.cols + cell[2]})

\* Everything the claim says of the box emitted for cell <<r, c>> but its id
PlacedBox(f, cell, box) ==
    /\ box.x = cell[2] * f.cellWidth + f.cellWidth \div 2
    /\ box.z = cell[1] * f.cellDepth + f.cellDepth \div 2
    /\ box.y = f.y
    /\ box.width = f.box.width
    /\ box.height = f.box.height
    /\ box.depth = f.box.depth
    /\ box.color = f.box.color

\* One box per occupied cell and no other, in row-major order
OneBoxPerOccupiedCell(f, out, IdOf(_, _)) ==
    /\ Len(out) = Cardinality(OccupiedCells(f))
    /\ \A cell \in OccupiedCells(f) :
          /\ PlacedBox(f, cell, out[Rank(f, cell)])
          /\ out[Rank(f, cell)].id = IdOf(f, cell)

\* The boxes of the example: (5, y, 5) with id "01", (15, y, 15) with id "12"
ExampleBoxes(out) ==
    /\ Len(out) = 2
    /\ <<out[1].x, out[1].z, out[1].id>> = <<5 * LenScale, 5 * LenScale, <<"0", "1">> >>
    /\ <<out[2].x, out[2].z, out[2].id>> = <<15 * LenScale, 15 * LenScale, <<"1", "2">> >>
    /\ out[1].y = ExampleFloor.y /\ out[2].y = ExampleFloor.y

\* The id as claimed: the row label is rowLabels[r] whenever the list has an
\* entry for row r
IdWhenGiven(f, cell) ==
    (IF cell[1] + 1 <= Len(f.rowLabels) THEN f.rowLabels[cell[1] + 1]
     ELSE DecimalText(cell[1])) \o DecimalText(cell[2] + 1)

\* The id as amended: the row label is rowLabels[r] when the list has a
\* non-empty entry for row r
IdWhenNonEmpty(f, cell) ==
    (IF cell[1] + 1 <= Len(f.rowLabels) /\ f.rowLabels[cell[1] + 1] # <<>>
     THEN f.rowLabels[cell[1] + 1]
     ELSE DecimalText(cell[1])) \o DecimalText(cell[2] + 1)

\* C15 as claimed: expandGrid emits one box per cell of value 1 and none for
\* other cells, in row-major order, at x = c*cellWidth + cellWidth/2,
\* z = r*cellDepth + cellDepth/2, y = floor y, with the template's
\* dimensions and colour and the id rowLabels[r] (when given, else r)
\* followed by c+1; the example grid gives (5,y,5) "01" and (15,y,15) "12".
C15_BoxPerOccupiedCell ==
    [][ ExpandFloor =>
          /\ OneBoxPerOccupiedCell(floor, boxes', IdWhenGiven)
          /\ floor = ExampleFloor => ExampleBoxes(boxes')
      ]_vars

\* C15 as amended: the same, the row label being rowLabels[r] when given and
\* not the empty text, else the numeric row index r.
C15_BoxPerOccupiedCellNonEmptyLabel ==
    [][ ExpandFloor =>
          /\ OneBoxPerOccupiedCell(floor, boxes', IdWhenNonEmpty)
          /\ floor = ExampleFloor => ExampleBoxes(boxes')
      ]_vars

\* A grid with a cell value other than 0 and 1 and a row-label list whose
\* second label is empty has been expanded: two boxes, the last with the
\* row index in its id.
C15_Witness ==
    /\ floor.grid = OddGrid
    /\ Len(floor.rowLabels) = 2
    /\ floor.rowLabels[2] = <<>>
    /\ Len(boxes) = 2
    /\ boxes[2].id = <<"1", "2">>

\* Whether a list of labels has no duplicates
NoDuplicates(labels) ==
    \A i, j \in 1..Len(labels) : i # j => labels[i] # labels[j]

\* C16: when the row-label list has no duplicates and at least rows
\* entries, the ids expandGrid yields are pairwise distinct.
C16_DistinctIds ==
    (NoDuplicates(floor.rowLabels) /\ Len(floor.rowLabels) >= floor.rows) =>
        \A i, j \in 1..Len(boxes) : i # j => boxes[i].id # boxes[j].id

\* C17: once box b has an entry in the moving or rotating map, the entry
\* keeps its axis and its box, its remaining changes on frame ticks only,
\* and it leaves the map only on the render of its own completion; no step
\* of the user (selection, axis selector, distance field, the toggles,
\* a double-click, a Move or Rotate request) removes or alters it.
C17_NoCancellation ==
    [][ \A b \in BoxIds :
          /\ Has(moving, b) =>
                IF Has(moving', b)
                THEN /\ moving'[b].axis = moving[b].axis
                     /\ moving'[b].boxId = moving[b].boxId
                     /\ moving'[b].remaining # moving[b].remaining =>
                           \E delta \in Deltas : FrameTick(delta)
                ELSE /\ Render
                     /\ b \in queuedMoving
                     /\ Exhausted("move", moving[b].remaining)
          /\ Has(rotating, b) =>
                IF Has(rotating', b)
                THEN /\ rotating'[b].boxId = rotating[b].boxId
                     /\ rotating'[b].remaining # rotating[b].remaining =>
                           \E delta \in Deltas : FrameTick(delta)
                ELSE /\ Render
                     /\ b \in queuedRotating
                     /\ Exhausted("rotate", rotating[b].remaining)
      ]_vars

\* A move entry has been advanced by a frame and is still in the map, while
\* the selection is on the other box, the axis selector on another axis than
\* the entry's, the label on the moving box and its car-present flag on.
C17_Witness ==
    \E b \in BoxIds :
        /\ Has(moving, b)
        /\ moving[b].remaining # hist[b].delta0
        /\ selectedBoxId \in BoxIds \ {b}
        /\ axis # moving[b].axis
        /\ labelBoxId = b
        /\ Flag(carsOnBoxes, b)

\* C18: a box whose error flag is not set is displayed in yellow when it is
\* selected, else in the car-present colour when its car-present flag is
\* on, else in its own colour, or in limegreen when it has none.
C18_ColorWithoutError ==
    \A id \in BoxIds :
        ~Flag(errorBoxes, id) =>
            Color(id) = IF id = selectedBoxId THEN "yellow"
                        ELSE IF Flag(carsOnBoxes, id) THEN "lightgray"
                        ELSE IF BoxColor(id) # "" THEN BoxColor(id)
                        ELSE "limegreen"

\* The box without a colour of its own is unselected with both flags off
\* after its error flag was on and its blink phase flipped, while the other
\* box is selected with its car-present flag on.
C18_Witness ==
    \E id \in BoxIds :
        /\ BoxColor(id) = ""
        /\ id # selectedBoxId
        /\ Has(errorBoxes, id) /\ ~errorBoxes[id]
        /\ Has(carsOnBoxes, id) /\ ~carsOnBoxes[id]
        /\ blink[id]
        /\ selectedBoxId \in BoxIds
        /\ Flag(carsOnBoxes, selectedBoxId)
        /\ ~Flag(errorBoxes, selectedBoxId)

\* What a frame of elapsed time delta does to box b: its position moves
\* along the axis of its own move entry by that entry's step, its rotation
\* by its own rotate entry's step, and nothing else of it changes.
AdvancedAlone(b, delta) ==
    LET moveStep == IF Has(moving, b)
                    THEN Sign(moving[b].remaining)
                            * Min(Abs(moving[b].remaining), Speed("move") * delta)
                    ELSE 0
        rotateStep == IF Has(rotating, b)
                      THEN Sign(rotating[b].remaining)
                              * Min(Abs(rotating[b].remaining), Speed("rotate") * delta)
                      ELSE 0
    IN  /\ Has(moving', b) = Has(moving, b)
        /\ Has(rotating', b) = Has(rotating, b)
        /\ Has(moving, b) => moving'[b].remaining = moving[b].remaining - moveStep
        /\ Has(rotating, b) =>
              rotating'[b].remaining = rotating[b].remaining - rotateStep
        /\ \A a \in Axes :
              meshPos'[b][a] - meshPos[b][a] =
                  IF Has(moving, b) /\ moving[b].axis = a THEN moveStep ELSE 0
        /\ meshRotY'[b] - meshRotY[b] = rotateStep

\* C19: a frame advances every live entry by its own step and leaves every
\* box without an entry where it is; the completion of box b's entry asks
\* for the removal of b's key and of no other, whatever the selection is by
\* then, and the render removes exactly the keys asked for.
C19_IndependentAnimations ==
    [][ /\ \A delta \in Deltas :
              FrameTick(delta) =>
                  /\ \A b \in BoxIds : AdvancedAlone(b, delta)
                  /\ queuedMoving' \ queuedMoving \subseteq
                        {b \in DOMAIN moving :
                            Exhausted("move", moving'[b].remaining)}
                  /\ queuedRotating' \ queuedRotating \subseteq
                        {b \in DOMAIN rotating :
                            Exhausted("rotate", rotating'[b].remaining)}
        /\ \A b \in BoxIds :
              /\ (Has(moving, b) /\ ~Has(moving', b)) =>
                    Exhausted("move", moving[b].remaining)
              /\ (Has(rotating, b) /\ ~Has(rotating', b)) =>
                    Exhausted("rotate", rotating[b].remaining)
      ]_vars

\* Both boxes have a live entry: the move of one has completed and awaits
\* the render, the rotation of the other is part of the way, and the
\* selection is on the rotating box.
C19_Witness ==
    \E b, o \in BoxIds :
        /\ b # o
        /\ Has(moving, b)
        /\ queuedMoving = {b}
        /\ Has(rotating, o)
        /\ rotating[o].remaining \notin {0, MathPI}
        /\ ~Exhausted("rotate", rotating[o].remaining)
        /\ selectedBoxId = o

====
